---- MODULE Spec2Model ----
(***************************************************************************)
(* PII detection (backend/src/pii/detection.py) and image masking          *)
(* (backend/src/masking/image.py) of aws-textract-mask-pii.                *)
(*                                                                         *)
(* A text is a sequence of Unicode code points ("John" is <<74,111,104,    *)
(* 110>>).  The alphabet is Latin-1 (0..255), Devanagari (2304..2431) and  *)
(* Tamil (2944..3071), the scripts the detector's tables are written in.   *)
(***************************************************************************)
EXTENDS Integers, Sequences, FiniteSets, TLC

\* ------------------------------------------------------------------ text

\* Python 3 str regex classes \w, \d, \s over the alphabet.
WordChars ==
    (48..57) \cup (65..90) \cup {95} \cup (97..122) \cup {170} \cup (178..179)
    \cup {181} \cup (185..186) \cup (188..190) \cup (192..214) \cup (216..246)
    \cup (248..255) \cup (2308..2361) \cup {2365} \cup {2384} \cup (2392..2401)
    \cup (2406..2415) \cup (2417..2431) \cup {2947} \cup (2949..2954)
    \cup (2958..2960) \cup (2962..2965) \cup (2969..2970) \cup {2972}
    \cup (2974..2975) \cup (2979..2980) \cup (2984..2986) \cup (2990..3001)
    \cup {3024} \cup (3046..3058)

DigitChars == (48..57) \cup (2406..2415) \cup (3046..3055)

SpaceChars == (9..13) \cup (28..32) \cup {133} \cup {160}

AsciiLetters == (65..90) \cup (97..122)

AsciiDigits == 48..57

TamilBlock == 2944..3071

DevanagariBlock == 2304..2431

\* str.lower() on one character of the alphabet.
LowerChar(c) ==
    IF c \in (65..90) \cup (192..214) \cup (216..222) THEN c + 32 ELSE c

\* str.lower()
Lower(s) == [i \in 1..Len(s) |-> LowerChar(s[i])]

RECURSIVE LStripSet(_, _)
LStripSet(s, cs) ==
    IF s # <<>> /\ Head(s) \in cs THEN LStripSet(Tail(s), cs) ELSE s

RECURSIVE RStripSet(_, _)
RStripSet(s, cs) ==
    IF s # <<>> /\ s[Len(s)] \in cs
    THEN RStripSet(SubSeq(s, 1, Len(s) - 1), cs)
    ELSE s

\* str.strip(): whitespace removed at both ends.
Strip(s) == RStripSet(LStripSet(s, SpaceChars), SpaceChars)

\* needle in hay (Python substring test).
Contains(hay, needle) ==
    \E i \in 0..(Len(hay) - Len(needle)) :
        SubSeq(hay, i + 1, i + Len(needle)) = needle

\* re.sub(r'\D', '', text): the digit-only projection.
DigitsOf(s) == SelectSeq(s, LAMBDA c : c \in DigitChars)

\* text += word + " " for each word, then strip  (_get_block_text).
RECURSIVE JoinWords(_)
JoinWords(ws) ==
    IF ws = <<>> THEN <<>> ELSE Head(ws) \o <<32>> \o JoinWords(Tail(ws))

\* ----------------------------------------------------------------- regex

\* Regular expressions as trees; MatchEnds(r, s, p) is the set of positions
\* at which a match of r that starts at position p of s can end (positions
\* are 1..Len(s)+1, the index of the next character to read).
RSet(cs) == [t |-> "set", cs |-> cs]
RSeq(xs) == [t |-> "seq", xs |-> xs]
RAlt(xs) == [t |-> "alt", xs |-> xs]
\* x{lo,hi}; hi = -1 is unbounded.
RRep(x, lo, hi) == [t |-> "rep", x |-> x, lo |-> lo, hi |-> hi]
RBol == [t |-> "bol"]
REol == [t |-> "eol"]
RWordB == [t |-> "wb"]
RLit(w) == RSeq([i \in 1..Len(w) |-> RSet({w[i]})])

IsWordAt(s, p) == p >= 1 /\ p <= Len(s) /\ s[p] \in WordChars

RECURSIVE MatchEnds(_, _, _)
RECURSIVE SeqEnds(_, _, _, _)
RECURSIVE RepEnds(_, _, _, _)

SeqEnds(xs, s, P, k) ==
    IF k > Len(xs) THEN P
    ELSE SeqEnds(xs, s, UNION {MatchEnds(xs[k], s, q) : q \in P}, k + 1)

RepEnds(r, s, P, n) ==
    (IF n >= r.lo THEN P ELSE {})
    \cup (IF P = {} \/ (r.hi # -1 /\ n >= r.hi) THEN {}
          ELSE RepEnds(r, s, UNION {MatchEnds(r.x, s, q) : q \in P}, n + 1))

MatchEnds(r, s, p) ==
    CASE r.t = "set" -> IF p <= Len(s) /\ s[p] \in r.cs THEN {p + 1} ELSE {}
      [] r.t = "seq" -> SeqEnds(r.xs, s, {p}, 1)
      [] r.t = "alt" -> UNION {MatchEnds(r.xs[k], s, p) : k \in 1..Len(r.xs)}
      [] r.t = "rep" -> RepEnds(r, s, {p}, 0)
      [] r.t = "bol" -> IF p = 1 THEN {p} ELSE {}
      \* $ matches at the end and before a newline that ends the string
      [] r.t = "eol" -> IF p = Len(s) + 1 \/ (p = Len(s) /\ s[p] = 10)
                        THEN {p} ELSE {}
      [] r.t = "wb"  -> IF IsWordAt(s, p - 1) # IsWordAt(s, p) THEN {p} ELSE {}

\* re.search(pattern, s) is not None
Search(r, s) == \E p \in 1..(Len(s) + 1) : MatchEnds(r, s, p) # {}

\* ^X+(?:[\s-]X+)*$  for a letter class X
NamePattern(X) ==
    RSeq(<<RBol, RRep(RSet(X), 1, -1),
           RRep(RSeq(<<RSet(SpaceChars \cup {45}), RRep(RSet(X), 1, -1)>>), 0, -1),
           REol>>)

\* (?:^|\s)(w1|w2|...)(?:\s|$)
GenderPattern(ws) ==
    RSeq(<<RAlt(<<RBol, RSet(SpaceChars)>>),
           RAlt([i \in 1..Len(ws) |-> RLit(ws[i])]),
           RAlt(<<RSet(SpaceChars), REol>>)>>)

RDigits(n) == RRep(RSet(DigitChars), n, n)

RAsciiDigits(n) == RRep(RSet(AsciiDigits), n, n)

\* REGEX_PATTERNS, in the order of the table.  A language-keyed pattern is a
\* record with fields en, ta, hi; a shared pattern is a regex tree.
Pat_Name ==
    [en |-> NamePattern(AsciiLetters),
     ta |-> NamePattern(TamilBlock),
     hi |-> NamePattern(DevanagariBlock)]

Pat_Address ==
    [en |-> RSeq(<<RBol, RRep(RSet(DigitChars), 1, 5), RSet(SpaceChars),
                   RRep(RSet(WordChars), 1, -1), RSet(SpaceChars),
                   RRep(RSet(WordChars), 1, -1)>>),
     ta |-> RSeq(<<RBol, RRep(RSet(DigitChars), 1, 5), RSet(SpaceChars),
                   RRep(RSet(TamilBlock), 1, -1)>>),
     hi |-> RSeq(<<RBol, RRep(RSet(DigitChars), 1, 5), RSet(SpaceChars),
                   RRep(RSet(DevanagariBlock), 1, -1)>>)]

\* \b[789]\d{9}\b|\b[0-9]{3}-[0-9]{3}-[0-9]{4}\b|\b[0-9]{10}\b
Pat_Phone ==
    RAlt(<<RSeq(<<RWordB, RSet({55, 56, 57}), RDigits(9), RWordB>>),
           RSeq(<<RWordB, RAsciiDigits(3), RSet({45}), RAsciiDigits(3),
                  RSet({45}), RAsciiDigits(4), RWordB>>),
           RSeq(<<RWordB, RAsciiDigits(10), RWordB>>)>>)

\* [a-zA-Z0-9._%+-]+@[a-zA-Z0-9.-]+\.[A-Za-z]{2,}
Pat_Email ==
    RSeq(<<RRep(RSet(AsciiLetters \cup AsciiDigits \cup {46, 95, 37, 43, 45}), 1, -1),
           RSet({64}),
           RRep(RSet(AsciiLetters \cup AsciiDigits \cup {46, 45}), 1, -1),
           RSet({46}),
           RRep(RSet(AsciiLetters), 2, -1)>>)

\* \b\d{4}\s?\d{4}\s?\d{4}\b|\b\d{12}\b
Pat_Aadhaar ==
    RAlt(<<RSeq(<<RWordB, RDigits(4), RRep(RSet(SpaceChars), 0, 1), RDigits(4),
                  RRep(RSet(SpaceChars), 0, 1), RDigits(4), RWordB>>),
           RSeq(<<RWordB, RDigits(12), RWordB>>)>>)

\* \b\d{2}[-/]\d{2}[-/]\d{2,4}\b
Pat_DOB ==
    RSeq(<<RWordB, RDigits(2), RSet({45, 47}), RDigits(2), RSet({45, 47}),
           RRep(RSet(DigitChars), 2, 4), RWordB>>)

Pat_Gender ==
    [en |-> GenderPattern(<<
                <<109,97,108,101>>, <<102,101,109,97,108,101>>,
                <<77,97,108,101>>, <<70,101,109,97,108,101>>,
                <<77,65,76,69>>, <<70,69,77,65,76,69>>>>),
     ta |-> GenderPattern(<<<<2950,2979,3021>>, <<2986,3014,2979,3021>>>>),
     hi |-> GenderPattern(<<<<2346,2369,2352,2369,2359>>,
                            <<2350,2361,2367,2354,2366>>>>)]

REGEX_PATTERNS ==
    << [type |-> "Name",           keyed |-> TRUE,  pattern |-> Pat_Name],
       [type |-> "Address",        keyed |-> TRUE,  pattern |-> Pat_Address],
       [type |-> "Phone Number",   keyed |-> FALSE, pattern |-> Pat_Phone],
       [type |-> "Email Address",  keyed |-> FALSE, pattern |-> Pat_Email],
       [type |-> "Aadhaar Number", keyed |-> FALSE, pattern |-> Pat_Aadhaar],
       [type |-> "Date of Birth",  keyed |-> FALSE, pattern |-> Pat_DOB],
       [type |-> "Gender",         keyed |-> TRUE,  pattern |-> Pat_Gender] >>

\* pattern.get(lang, pattern.get("en", ""))
PatternFor(keyedPattern, lang) ==
    IF lang \in DOMAIN keyedPattern THEN keyedPattern[lang] ELSE keyedPattern.en

\* ---------------------------------------------------------------- tables

NoType == "None"

\* PII_KEY_MAPPING: per type, the aliases of en, ta, hi in table order.
PII_KEY_MAPPING ==
    << [type |-> "Name", aliases |-> <<
          <<110,97,109,101>>, <<102,117,108,108,32,110,97,109,101>>,
          <<102,117,108,108,110,97,109,101>>, <<103,105,118,101,110,32,110,97,109,101>>,
          <<2986,3014,2991,2992,3021>>, <<2990,3009,2996,3009,32,2986,3014,2991,2992,3021>>,
          <<3000,3021,2992,3008,2992,3006,2990,3021>>, <<2990,3006,2990,3009,2979,3021,2975,3007>>,
          <<2344,2366,2350>>, <<2346,2370,2352,2366,32,2344,2366,2350>> >>],
       [type |-> "Address", aliases |-> <<
          <<97,100,100,114,101,115,115>>, <<97,100,100,114>>,
          <<112,101,114,109,97,110,101,110,116,32,97,100,100,114,101,115,115>>,
          <<2990,3009,2965,2997,2992,3007>>, <<2346,2340,2366>> >>],
       [type |-> "Phone Number", aliases |-> <<
          <<112,104,111,110,101>>, <<109,111,98,105,108,101>>,
          <<116,101,108,101,112,104,111,110,101>>,
          <<99,111,110,116,97,99,116,32,110,117,109,98,101,114>>,
          <<2980,3018,2994,3016,2986,3015,2970,3007>>, <<2990,3018,2986,3016,2994,3021>>,
          <<2347,2379,2344>>, <<2350,2379,2348,2366,2311,2354>> >>],
       [type |-> "Email Address", aliases |-> <<
          <<101,109,97,105,108>>, <<101,45,109,97,105,108>>, <<109,97,105,108>>,
          <<2990,3007,2985,3021,2985,2974,3021,2970,2994,3021>>,
          <<2312,2350,2375,2354>> >>],
       [type |-> "Aadhaar Number", aliases |-> <<
          <<97,97,100,104,97,97,114,32,110,117,109,98,101,114>>, <<117,105,100>>,
          <<97,97,100,104,97,97,114>>,
          <<2950,2980,3006,2992,3021,32,2958,2979,3021>>,
          <<2310,2343,2366,2352,32,2360,2306,2326,2381,2351,2366>> >>],
       [type |-> "Date of Birth", aliases |-> <<
          <<100,111,98>>, <<100,97,116,101,32,111,102,32,98,105,114,116,104>>,
          <<98,105,114,116,104,32,100,97,116,101>>, <<98,100,97,116,101>>,
          <<2986,3007,2993,2984,3021,2980,32,2980,3015,2980,3007>>,
          <<2332,2344,2381,2350,32,2340,2367,2341,3007>> >>],
       [type |-> "Gender", aliases |-> <<
          <<103,101,110,100,101,114>>, <<115,101,120>>, <<77,97,108,101>>,
          <<70,101,109,97,108,101>>, <<109,97,108,101>>, <<102,101,109,97,108,101>>,
          <<77,65,76,69>>, <<70,69,77,65,76,69>>,
          <<2986,3006,2994,3007,2985,2990,3021>>, <<2950,2979,3021>>, <<2986,3014,2979,3021>>,
          <<2354,2367,2306,2327>>, <<2346,2369,2352,2369,2359>>,
          <<2350,2361,2367,2354,2366>> >>] >>

\* NON_PII_BLACKLIST
NON_PII_BLACKLIST ==
    [en |-> <<
        <<103,111,118,101,114,110,109,101,110,116>>, <<105,110,100,105,97>>,
        <<109,105,110,105,115,116,114,121>>, <<100,101,112,97,114,116,109,101,110,116>>,
        <<97,117,116,104,111,114,105,116,121>>, <<111,102,102,105,99,101>>,
        <<111,102,102,105,99,105,97,108>>, <<112,117,98,108,105,99>>, <<115,116,97,116,101>>,
        <<110,97,116,105,111,110,97,108>>, <<102,101,100,101,114,97,108>>,
        <<98,117,114,101,97,117>>, <<97,103,101,110,99,121>>, <<114,101,103,105,115,116,114,121>>,
        <<99,101,114,116,105,102,105,99,97,116,101>>, <<100,111,99,117,109,101,110,116>>,
        <<102,111,114,109>>, <<97,112,112,108,105,99,97,116,105,111,110>>,
        <<105,115,115,117,101,100>>, <<118,97,108,105,100>>, <<101,120,112,105,114,101,100>>,
        <<115,105,103,110,97,116,117,114,101>>, <<115,101,97,108>>, <<97,97,100,104,97,97,114>>,
        <<99,111,108,111,110,121>>, <<115,112,97,99,101>> >>,
     ta |-> <<
        <<2949,2992,2970,3009>>, <<2951,2984,3021,2980,3007,2991,3006>>, <<2980,3009,2993,3016>>,
        <<2949,2980,3007,2965,3006,2992,2990,3021>>, <<2949,2994,3009,2997,2994,2965,2990,3021>>,
        <<2986,3018,2980,3009>>, <<2990,3006,2984,3007,2994>>, <<2980,3015,2970,3007,2991>>,
        <<2950,2979,3016>>, <<2970,3006,2985,3021,2993,3007,2980,2996,3021>>,
        <<2950,2997,2979,2990,3021>>, <<2997,3007,2979,3021,2979,2986,3021,2986,2990,3021>>,
        <<2997,2996,2969,3021,2965,2986,3021,2986,2975,3021,2975,2980,3009>>,
        <<2970,3014,2994,3021,2994,3009,2986,2975,3007,2991,3006,2965,3009,2990,3021>>,
        <<2965,3006,2994,3006,2997,2980,3007,2991,3006,2985,2980,3009>>,
        <<2965,3016,2991,3018,2986,3021,2986,2990,3021>>, <<2990,3009,2980,3021,2980,3007,2992,3016>>,
        <<2950,2980,3006,2992,3021>>, <<2965,3006,2994,2985,3007>>,
        <<2997,3007,2979,3021,2997,3014,2995,3007>> >>,
     hi |-> <<
        <<2360,2352,2325,2366,2352>>, <<2349,2366,2352,2340>>,
        <<2350,2306,2340,2381,2352,2366,2354,2351>>, <<2357,2367,2349,2366,2327>>,
        <<2346,2381,2352,2366,2343,2367,2325,2352,2339>>,
        <<2325,2366,2352,2381,2351,2366,2354,2351>>, <<2310,2343,2367,2325,2366,2352,2367,2325>>,
        <<2360,2366,2352,2381,2357,2332,2344,2367,2325>>, <<2352,2366,2332,2381,2351>>,
        <<2352,2366,2359,2381,2335,2381,2352,2368,2351>>, <<2360,2306,2328,2368,2351>>,
        <<2348,2381,2351,2370,2352,2379>>, <<2319,2332,2375,2306,2360,2368>>,
        <<2352,2332,2367,2360,2381,2335,2381,2352,2368>>,
        <<2346,2381,2352,2350,2366,2339,2346,2340,2381,2352>>,
        <<2342,2360,2381,2340,2366,2357,2375,2332,2364>>, <<2347,2377,2352,2381,2350>>,
        <<2310,2357,2375,2342,2344>>, <<2332,2366,2352,2368>>, <<2350,2366,2344,2381,2351>>,
        <<2360,2350,2366,2346,2381,2340>>, <<2361,2360,2381,2340,2366,2325,2381,2359,2352>>,
        <<2350,2369,2361,2352>>, <<2310,2343,2366,2352>>, <<2325,2377,2354,2379,2344,2368>>,
        <<2309,2306,2340,2352,2367,2325,2381,2359>>,
        <<2349,2366,2352,2340,32,2360,2352,2325,2366,2352>> >>]

\* _map_to_pii_type: the first type, in table order, one of whose aliases
\* (lowercased, stripped) equals the key.
RECURSIVE MapFrom(_, _)
MapFrom(key, k) ==
    IF k > Len(PII_KEY_MAPPING) THEN NoType
    ELSE IF \E a \in 1..Len(PII_KEY_MAPPING[k].aliases) :
                Strip(Lower(PII_KEY_MAPPING[k].aliases[a])) = key
         THEN PII_KEY_MAPPING[k].type
         ELSE MapFrom(key, k + 1)

MapToPiiType(key) == MapFrom(key, 1)

\* re.sub(r'[:\s]+$', '', key.lower().strip())
NormalizeKey(key) == RStripSet(Strip(Lower(key)), SpaceChars \cup {58})

\* -------------------------------------------------------- language detector

\* langdetect.detect is seeded (DetectorFactory.seed = 0) and so is a fixed
\* function of the text; it raises on a text without letters, which
\* _detect_language turns into "en".  Which language it reports for a text
\* with letters is the library's business: a detector is given by the set of
\* texts for which it reports a language outside the tables ("xx"); for any
\* other text it reports the language of the script of the first letter.
Letters == WordChars \ (DigitChars \cup {95})

HasLetters(text) == \E i \in 1..Len(text) : text[i] \in Letters

FirstLetter(text) == text[CHOOSE i \in 1..Len(text) :
                            /\ text[i] \in Letters
                            /\ \A j \in 1..(i - 1) : text[j] \notin Letters]

DetectLanguage(det, text) ==
    IF ~HasLetters(text) THEN "en"
    ELSE IF text \in det THEN "xx"
    ELSE IF FirstLetter(text) \in TamilBlock THEN "ta"
    ELSE IF FirstLetter(text) \in DevanagariBlock THEN "hi"
    ELSE "en"

\* any(word.lower() in text.lower() for word in NON_PII_BLACKLIST[lang])
HasTermOf(lang, text) ==
    \E w \in 1..Len(NON_PII_BLACKLIST[lang]) :
        Contains(Lower(text), Lower(NON_PII_BLACKLIST[lang][w]))

\* _is_non_pii with `word.lower() in text`: the text is not lowercased
IsNonPii_caseSensitive(det, text) ==
    LET lang == DetectLanguage(det, text)
    IN  IF lang \in DOMAIN NON_PII_BLACKLIST
        THEN \E w \in 1..Len(NON_PII_BLACKLIST[lang]) :
                Contains(text, Lower(NON_PII_BLACKLIST[lang][w]))
        ELSE FALSE

\* _is_non_pii
IsNonPii(det, text) ==
    LET lang == DetectLanguage(det, text)
    IN  IF lang \in DOMAIN NON_PII_BLACKLIST THEN HasTermOf(lang, text) ELSE FALSE

\* ---------------------------------------------------------------- blocks

\* A block, a relationship, a line observation and a bounding box are Python
\* dicts: functions from the keys present to their values.  {} is EmptyDict.
EmptyDict == [k \in {} |-> 0]

Has(d, k) == k \in DOMAIN d

\* d without key k (an input that lacks a field)
Without(d, k) == [x \in (DOMAIN d) \ {k} |-> d[x]]

\* block.get("Geometry", {}).get("BoundingBox", default)
BoxOf(block, default) ==
    IF Has(block, "Geometry") /\ Has(block.Geometry, "BoundingBox")
    THEN block.Geometry.BoundingBox
    ELSE default

\* block.get("Confidence", default)
ConfidenceOf(block, default) ==
    IF Has(block, "Confidence") THEN block.Confidence ELSE default

\* block.get("Text", "")
TextOf(block) == IF Has(block, "Text") THEN block.Text ELSE <<>>

\* block.get("BlockType")
BlockTypeOf(block) == IF Has(block, "BlockType") THEN block.BlockType ELSE "None"

\* A Python dict with insertion order: a sequence of <<key, value>> with
\* distinct keys; d[k] = v on a key already present keeps its position.
DictHas(d, k) == \E i \in 1..Len(d) : d[i][1] = k

DictGet(d, k) == d[CHOOSE i \in 1..Len(d) : d[i][1] = k][2]

DictPut(d, k, v) ==
    IF DictHas(d, k)
    THEN [i \in 1..Len(d) |-> IF d[i][1] = k THEN <<k, v>> ELSE d[i]]
    ELSE Append(d, <<k, v>>)

\* the ids of the relationships of one Type, in relation-list order
RECURSIVE IdsOfType(_, _)
IdsOfType(rels, type) ==
    IF rels = <<>> THEN <<>>
    ELSE (IF Head(rels).Type = type THEN Head(rels).Ids ELSE <<>>)
         \o IdsOfType(Tail(rels), type)

RelsOf(block) == IF Has(block, "Relationships") THEN block.Relationships ELSE <<>>

\* the texts of the WORD blocks whose Id is child_id, in block order
RECURSIVE WordTexts(_, _)
WordTexts(child_id, all_blocks) ==
    IF all_blocks = <<>> THEN <<>>
    ELSE (IF Head(all_blocks).Id = child_id /\ Head(all_blocks).BlockType = "WORD"
          THEN <<Head(all_blocks).Text>> ELSE <<>>)
         \o WordTexts(child_id, Tail(all_blocks))

RECURSIVE ChildWords(_, _)
ChildWords(child_ids, all_blocks) ==
    IF child_ids = <<>> THEN <<>>
    ELSE WordTexts(Head(child_ids), all_blocks) \o ChildWords(Tail(child_ids), all_blocks)

\* _get_block_text, when it does not raise
GetBlockText(block, all_blocks) ==
    Strip(JoinWords(ChildWords(IdsOfType(RelsOf(block), "CHILD"), all_blocks)))

\* _get_block_text raises KeyError: rel["Type"], rel["Ids"], b["Id"],
\* b["BlockType"], b["Text"] are plain subscripts.
GetBlockTextRaises(block, all_blocks) ==
    \E r \in 1..Len(RelsOf(block)) :
        LET rel == RelsOf(block)[r]
        IN  \/ ~Has(rel, "Type")
            \/ /\ rel.Type = "CHILD"
               /\ \/ ~Has(rel, "Ids")
                  \/ \E c \in 1..Len(rel.Ids), b \in 1..Len(all_blocks) :
                        \/ ~Has(all_blocks[b], "Id")
                        \/ /\ all_blocks[b].Id = rel.Ids[c]
                           /\ \/ ~Has(all_blocks[b], "BlockType")
                              \/ /\ all_blocks[b].BlockType = "WORD"
                                 /\ ~Has(all_blocks[b], "Text")

IsKeyValueSet(block) == Has(block, "BlockType") /\ block.BlockType = "KEY_VALUE_SET"

IsKeyBlock(block) ==
    IsKeyValueSet(block) /\ Has(block, "EntityTypes") /\ "KEY" \in block.EntityTypes

IsValueBlock(block) ==
    /\ IsKeyValueSet(block) /\ Has(block, "EntityTypes")
    /\ "KEY" \notin block.EntityTypes /\ "VALUE" \in block.EntityTypes

\* _extract_key_value_pairs raises KeyError (either loop)
ExtractRaises(blocks) ==
    \E i \in 1..Len(blocks) :
        LET block == blocks[i]
        IN  \/ ~Has(block, "BlockType")
            \/ /\ block.BlockType = "KEY_VALUE_SET"
               /\ \/ ~Has(block, "EntityTypes")
                  \/ /\ "KEY" \in block.EntityTypes \/ "VALUE" \in block.EntityTypes
                     /\ \/ GetBlockTextRaises(block, blocks)
                        \/ ~Has(block, "Id")
                  \/ /\ "KEY" \in block.EntityTypes
                     /\ \E r \in 1..Len(RelsOf(block)) :
                           \/ ~Has(RelsOf(block)[r], "Type")
                           \/ /\ RelsOf(block)[r].Type = "VALUE"
                              /\ ~Has(RelsOf(block)[r], "Ids")

\* first loop: keys[block["Id"]] = key_text
RECURSIVE KeysTable(_, _, _)
KeysTable(blocks, i, keys) ==
    IF i > Len(blocks) THEN keys
    ELSE KeysTable(blocks, i + 1,
            IF IsKeyBlock(blocks[i])
            THEN DictPut(keys, blocks[i].Id, Lower(GetBlockText(blocks[i], blocks)))
            ELSE keys)

\* first loop: values[block["Id"]] = {text, bounding_box, confidence}
ValueRecord(block, all_blocks) ==
    [text |-> GetBlockText(block, all_blocks),
     bounding_box |-> BoxOf(block, EmptyDict),
     confidence |-> ConfidenceOf(block, 0)]

RECURSIVE ValuesTable(_, _, _)
ValuesTable(blocks, i, values) ==
    IF i > Len(blocks) THEN values
    ELSE ValuesTable(blocks, i + 1,
            IF IsValueBlock(blocks[i])
            THEN DictPut(values, blocks[i].Id, ValueRecord(blocks[i], blocks))
            ELSE values)

\* the second loop writing a key only while pairs has no entry for it
RECURSIVE PutLinks_keepsFirst(_, _, _, _)
PutLinks_keepsFirst(pairs, key_text, value_ids, values) ==
    IF value_ids = <<>> THEN pairs
    ELSE PutLinks_keepsFirst(
            IF DictHas(values, Head(value_ids)) /\ ~DictHas(pairs, key_text)
            THEN DictPut(pairs, key_text, DictGet(values, Head(value_ids)))
            ELSE pairs,
            key_text, Tail(value_ids), values)

\* second loop, one KEY block: pairs[keys.get(block["Id"], "")] = values[value_id]
\* for each value_id in values
RECURSIVE PutLinks(_, _, _, _)
PutLinks(pairs, key_text, value_ids, values) ==
    IF value_ids = <<>> THEN pairs
    ELSE PutLinks(IF DictHas(values, Head(value_ids))
                  THEN DictPut(pairs, key_text, DictGet(values, Head(value_ids)))
                  ELSE pairs,
                  key_text, Tail(value_ids), values)

RECURSIVE PairsTable(_, _, _, _, _)
PairsTable(blocks, i, keys, values, pairs) ==
    IF i > Len(blocks) THEN pairs
    ELSE PairsTable(blocks, i + 1, keys, values,
            IF IsKeyBlock(blocks[i]) /\ Has(blocks[i], "Relationships")
            THEN PutLinks(pairs,
                          IF DictHas(keys, blocks[i].Id)
                          THEN DictGet(keys, blocks[i].Id) ELSE <<>>,
                          IdsOfType(blocks[i].Relationships, "VALUE"), values)
            ELSE pairs)

\* _extract_key_value_pairs, when it does not raise: the pairs dict
ExtractKeyValuePairs(blocks) ==
    PairsTable(blocks, 1, KeysTable(blocks, 1, <<>>), ValuesTable(blocks, 1, <<>>), <<>>)

\* _build_field
BuildField(pii_type, value) ==
    [type |-> pii_type, value |-> value.text,
     bounding_box |-> value.bounding_box, confidence |-> value.confidence]

\* ---------------------------------------------------------------- inputs

\* "John Doe"
T_JohnDoe == <<74,111,104,110,32,68,111,101>>

\* " John Doe "
T_JohnDoePadded == <<32,74,111,104,110,32,68,111,101,32>>

\* "9876543210"
T_Phone == <<57,56,55,54,53,52,51,50,49,48>>

\* "123456789012"
T_Aadhaar == <<49,50,51,52,53,54,55,56,57,48,49,50>>

\* "123456-789012"
T_TwelveDashed == <<49,50,51,52,53,54,45,55,56,57,48,49,50>>

\* "jane@example.com"
T_Email == <<106,97,110,101,64,101,120,97,109,112,108,101,46,99,111,109>>

\* "male"
T_Male == <<109,97,108,101>>

\* "Government of India"
T_GovIndia == <<71,111,118,101,114,110,109,101,110,116,32,111,102,32,73,110,100,105,97>>

\* "12/05/1990"
T_Dob == <<49,50,47,48,53,47,49,57,57,48>>

\* U+0B86 U+0BA3 U+0BCD (Tamil "male")
T_TamilMale == <<2950,2979,3021>>

\* U+092A U+0941 U+0930 U+0941 U+0937 (Hindi "male")
T_HindiMale == <<2346,2369,2352,2369,2359>>

\* U+092D U+093E U+0930 U+0924 U+0020 U+0938 U+0930 U+0915 U+093E U+0930
\* (Hindi "Government of India")
T_HindiGov == <<2349,2366,2352,2340,32,2360,2352,2325,2366,2352>>

\* "Formulaire national" (French; contains the terms "form" and "national")
T_FrenchForm == <<70,111,114,109,117,108,97,105,114,101,32,110,97,116,105,111,110,97,108>>

\* "Name"
T_Name == <<78,97,109,101>>

\* "Full Name:"
T_FullNameKey == <<70,117,108,108,32,78,97,109,101,58>>

\* "Mobile"
T_MobileKey == <<77,111,98,105,108,101>>

\* "Ref No"
T_RefNoKey == <<82,101,102,32,78,111>>

\* "Serial"
T_SerialKey == <<83,101,114,105,97,108>>

\* the words of a text (split at single spaces)
RECURSIVE Words(_)
Words(text) ==
    IF text = <<>> THEN <<>>
    ELSE IF \E i \in 1..Len(text) : text[i] = 32
         THEN LET i == CHOOSE j \in 1..Len(text) :
                          text[j] = 32 /\ \A k \in 1..(j - 1) : text[k] # 32
              IN  <<SubSeq(text, 1, i - 1)>> \o Words(SubSeq(text, i + 1, Len(text)))
         ELSE <<text>>

\* Bounding boxes are in thousandths of the image side, confidences in percent.
PairBox(n) == [Left |-> 100, Top |-> 100 * n, Width |-> 200, Height |-> 50]

LineBox(n) == [Left |-> 400, Top |-> 100 * n, Width |-> 300, Height |-> 50]

SecBox(n) == [Left |-> 410, Top |-> 100 * n + 5, Width |-> 310, Height |-> 60]

WordBlock(id, text) == [BlockType |-> "WORD", Id |-> id, Text |-> text]

WordBlocks(kind, n, ws) == [j \in 1..Len(ws) |-> WordBlock(<<kind, n, j>>, ws[j])]

WordIds(kind, n, ws) == [j \in 1..Len(ws) |-> <<kind, n, j>>]

ChildRel(kind, n, ws) ==
    IF ws = <<>> THEN <<>> ELSE <<[Type |-> "CHILD", Ids |-> WordIds(kind, n, ws)]>>

KeyBlock(n, ws) ==
    [BlockType |-> "KEY_VALUE_SET", EntityTypes |-> {"KEY"}, Id |-> <<"key", n, 0>>,
     Relationships |-> <<[Type |-> "VALUE", Ids |-> <<<<"value", n, 0>>>>]>>
                       \o ChildRel("kw", n, ws),
     Geometry |-> [BoundingBox |-> [Left |-> 10, Top |-> 100 * n, Width |-> 80, Height |-> 50]],
     Confidence |-> 95]

ValueBlock(n, ws) ==
    [BlockType |-> "KEY_VALUE_SET", EntityTypes |-> {"VALUE"}, Id |-> <<"value", n, 0>>,
     Relationships |-> ChildRel("vw", n, ws),
     Geometry |-> [BoundingBox |-> PairBox(n)],
     Confidence |-> 90 + n]

LineBlock(n, text) ==
    [BlockType |-> "LINE", Id |-> <<"line", n, 0>>, Text |-> text,
     Geometry |-> [BoundingBox |-> LineBox(n)], Confidence |-> 80 + n]

SecLine(n, text) ==
    [text |-> text, bounding_box |-> SecBox(n), confidence |-> 60 + n]

\* the blocks of key-value pair n: its words, its KEY block, its VALUE block
PairBlocks(n, pair) ==
    WordBlocks("kw", n, Words(pair[1])) \o WordBlocks("vw", n, Words(pair[2]))
    \o <<KeyBlock(n, Words(pair[1])), ValueBlock(n, Words(pair[2]))>>

RECURSIVE AllPairBlocks(_, _)
AllPairBlocks(pairs, n) ==
    IF n > Len(pairs) THEN <<>>
    ELSE PairBlocks(n, pairs[n]) \o AllPairBlocks(pairs, n + 1)

\* A document: primary LINE blocks, then the key-value pairs; and the
\* secondary engine's lines.
Document(pairs, plines, slines) ==
    [blocks |-> [n \in 1..Len(plines) |-> LineBlock(n, plines[n])]
                \o AllPairBlocks(pairs, 1),
     lines  |-> [n \in 1..Len(slines) |-> SecLine(n, slines[n])]]

SeqsUpTo(S, n) == UNION {[1..k -> S] : k \in 0..n}

MaxPairs == 2

MaxPrimaryLines == 1

MaxSecondaryLines == 1

\* key -> value choices of a form: keys that are aliases of Name ("Full Name:")
\* and Phone Number ("Mobile") and a key that is no alias ("Ref No")
PairChoices ==
    {<<T_FullNameKey, T_JohnDoe>>, <<T_MobileKey, T_JohnDoe>>, <<T_RefNoKey, T_JohnDoe>>,
     <<T_RefNoKey, T_Phone>>, <<T_FullNameKey, T_GovIndia>>, <<T_FullNameKey, T_FrenchForm>>}

PrimaryTexts ==
    {T_Phone, T_Aadhaar, T_TwelveDashed, T_Email, T_Male, T_JohnDoePadded,
     T_Dob, T_TamilMale}

SecondaryTexts == {T_Email, T_JohnDoe, T_HindiMale, T_HindiGov, T_Phone}

\* forms: key-value pairs, alone or with the value "John Doe" also read as a
\* line by both engines
FormDocs ==
    {Document(ps, ls[1], ls[2]) :
        ps \in SeqsUpTo(PairChoices, MaxPairs),
        ls \in {<<<<>>, <<>>>>, <<<<T_JohnDoePadded>>, <<T_JohnDoe>>>>}}

\* key -> value choices under keys that are no alias: a value that the name
\* and the gender patterns both match, a Hindi value, a French one
UnkeyedChoices ==
    {<<T_RefNoKey, T_Male>>, <<T_SerialKey, T_HindiMale>>, <<T_RefNoKey, T_FrenchForm>>,
     <<T_SerialKey, T_JohnDoe>>}

\* forms whose keys are no alias
UnkeyedDocs == {Document(ps, <<>>, <<>>) : ps \in SeqsUpTo(UnkeyedChoices, MaxPairs)}

\* free text: lines of both engines
LineDocs ==
    {Document(<<>>, pl, sl) :
        pl \in SeqsUpTo(PrimaryTexts, MaxPrimaryLines),
        sl \in SeqsUpTo(SecondaryTexts, MaxSecondaryLines)}

\* one line read by both engines, alone or followed by a line that only the
\* secondary engine read
SameLineDocs ==
    {Document(<<>>, <<t>>, IF followed THEN <<t, T_Email>> ELSE <<t>>) :
        t \in PrimaryTexts, followed \in BOOLEAN}

\* the blocks of tests/test_pii_detection.py (confidence 0.99 is 99 percent);
\* withKeyId adds the Id the test's KEY block lacks
TestBlocks(withKeyId) ==
    << IF withKeyId
       THEN [BlockType |-> "KEY_VALUE_SET", EntityTypes |-> {"KEY"}, Text |-> T_Name,
             Id |-> <<"key1", 0, 0>>,
             Relationships |-> <<[Type |-> "VALUE", Ids |-> <<<<"value1", 0, 0>>>>]>>]
       ELSE [BlockType |-> "KEY_VALUE_SET", EntityTypes |-> {"KEY"}, Text |-> T_Name,
             Relationships |-> <<[Type |-> "VALUE", Ids |-> <<<<"value1", 0, 0>>>>]>>],
       [BlockType |-> "KEY_VALUE_SET", EntityTypes |-> {"VALUE"}, Id |-> <<"value1", 0, 0>>,
        Text |-> T_JohnDoe,
        Geometry |-> [BoundingBox |-> [Left |-> 100, Top |-> 100, Width |-> 200, Height |-> 100]],
        Confidence |-> 99],
       [BlockType |-> "WORD", Text |-> <<74,111,104,110>>, Id |-> <<"word1", 0, 0>>],
       [BlockType |-> "WORD", Text |-> <<68,111,101>>, Id |-> <<"word2", 0, 0>>] >>

TestDocs == {[blocks |-> TestBlocks(b), lines |-> <<>>] : b \in BOOLEAN}

\* a document with one field of one block, relationship or line missing, or
\* with a link to an id no block has
BaseDoc == Document(<<<<T_FullNameKey, T_JohnDoe>>>>, <<T_Phone>>, <<T_Email>>)

DropBlockField(doc, j, f) ==
    [doc EXCEPT !.blocks = [i \in 1..Len(doc.blocks) |->
        IF i = j THEN Without(doc.blocks[i], f) ELSE doc.blocks[i]]]

DropLineField(doc, j, f) ==
    [doc EXCEPT !.lines = [i \in 1..Len(doc.lines) |->
        IF i = j THEN Without(doc.lines[i], f) ELSE doc.lines[i]]]

\* relationship r of block j replaced by rel
SetRel(doc, j, r, rel) ==
    [doc EXCEPT !.blocks = [i \in 1..Len(doc.blocks) |->
        IF i = j
        THEN [doc.blocks[i] EXCEPT !.Relationships =
                [k \in 1..Len(doc.blocks[i].Relationships) |->
                    IF k = r THEN rel ELSE doc.blocks[i].Relationships[k]]]
        ELSE doc.blocks[i]]]

RelAt(doc, p) == doc.blocks[p[1]].Relationships[p[2]]

Dangling(rel) == [rel EXCEPT !.Ids = <<<<"nowhere", 0, 0>>>>]

NoBoundingBox(doc, j) ==
    [doc EXCEPT !.blocks = [i \in 1..Len(doc.blocks) |->
        IF i = j THEN [doc.blocks[i] EXCEPT !.Geometry = EmptyDict] ELSE doc.blocks[i]]]

RelPlaces(doc) ==
    {<<j, r>> \in (1..Len(doc.blocks)) \X (1..2) :
        Has(doc.blocks[j], "Relationships") /\ r <= Len(doc.blocks[j].Relationships)}

MalformedDocs ==
    {DropBlockField(BaseDoc, j, f) :
        j \in 1..Len(BaseDoc.blocks), f \in {"BlockType", "Id", "Text", "EntityTypes",
                                              "Relationships", "Geometry", "Confidence"}}
    \cup {DropLineField(BaseDoc, 1, f) : f \in {"text", "bounding_box", "confidence"}}
    \cup {SetRel(BaseDoc, p[1], p[2], Without(RelAt(BaseDoc, p), f)) :
                p \in RelPlaces(BaseDoc), f \in {"Type", "Ids"}}
    \cup {SetRel(BaseDoc, p[1], p[2], Dangling(RelAt(BaseDoc, p))) : p \in RelPlaces(BaseDoc)}
    \cup {NoBoundingBox(BaseDoc, j) : j \in {j \in 1..Len(BaseDoc.blocks) :
                                                Has(BaseDoc.blocks[j], "Geometry")}}

MaxLinks == 2

\* the value ids a VALUE relationship may list: the two VALUE blocks of a
\* two-pair form and an id no block has
LinkIds == {<<"value", 1, 0>>, <<"value", 2, 0>>, <<"nowhere", 0, 0>>}

\* the position of the block with this Id
BlockWithId(doc, id) ==
    CHOOSE i \in 1..Len(doc.blocks) : Has(doc.blocks[i], "Id") /\ doc.blocks[i].Id = id

\* two-pair forms, under one key text or two, whose first KEY block lists
\* any value ids in its VALUE relationship
LinkDocs ==
    {SetRel(doc, BlockWithId(doc, <<"key", 1, 0>>), 1, [Type |-> "VALUE", Ids |-> ids]) :
        doc \in {Document(<<<<T_RefNoKey, T_JohnDoe>>, <<T_RefNoKey, T_Phone>>>>, <<>>, <<>>),
                 Document(<<<<T_RefNoKey, T_JohnDoe>>, <<T_SerialKey, T_Phone>>>>, <<>>, <<>>)},
        ids \in SeqsUpTo(LinkIds, MaxLinks)}

Documents ==
    FormDocs \cup UnkeyedDocs \cup LinkDocs \cup LineDocs \cup SameLineDocs \cup TestDocs
        \cup MalformedDocs

\* the detectors: langdetect reports English for every Latin text, or a
\* language outside the tables (French) for the French text
Detectors == {{}, {T_FrenchForm}}

\* text t, or its first word, is the Text of a block or the text of a line
Mentions(doc, t) ==
    \/ \E b \in 1..Len(doc.blocks) : TextOf(doc.blocks[b]) \in {t, Words(t)[1]}
    \/ \E l \in 1..Len(doc.lines) : Has(doc.lines[l], "text") /\ doc.lines[l].text = t

\* the detectors that differ on a document: what a detector reports for a
\* text the document does not hold is never asked
DetectorsOn(doc) == {det \in Detectors : \A t \in det : Mentions(doc, t)}

\* ------------------------------------------------------------ detect_pii

VARIABLES
    detector,         \* the language detector of the process (a member of Detectors)
    textract_blocks,  \* argument of the call in progress
    tesseract_lines,  \* argument of the call in progress
    pc,               \* "ready", "pass1" .. "pass4", "returned", "raised"
    key_value_pairs,  \* local: the pairs dict
    idx,              \* local: position of the running for loop (1-based)
    seen_values,      \* local
    pii_fields,       \* local; the value returned
    emitted_by,       \* history: for each field of pii_fields, the pass and item that emitted it
    history,          \* history: [blocks, lines, status, fields] of each finished call
    image,            \* mask_image: what cv2.imdecode gives, [width, height] or NoImage
    mask_input,       \* mask_image: argument pii_fields
    mask_type,        \* mask_image: argument mask_type
    mpc,              \* mask_image: "idle", "loop", "returned", "raised"
    mi,               \* mask_image: position of the for loop (1-based)
    masked_fields,    \* mask_image: local counter
    painted           \* mask_image: the rectangles written to the image, in order

detect_vars ==
    <<detector, textract_blocks, tesseract_lines, pc, key_value_pairs, idx,
      seen_values, pii_fields, emitted_by, history>>

mask_vars == <<image, mask_input, mask_type, mpc, mi, masked_fields, painted>>

vars == <<detect_vars, mask_vars>>

\* seen_values kept from the call before (a set held on the detector)
FreshSeenValues_kept(old) == old

\* seen_values = set()  (line 85)
FreshSeenValues(old) == {}

\* the loop of lines 101-108 with pattern["en"] for every language
RECURSIVE RegexFrom_englishOnly(_, _, _)
RegexFrom_englishOnly(lang, text, k) ==
    IF k > Len(REGEX_PATTERNS) THEN NoType
    ELSE IF Search(IF REGEX_PATTERNS[k].keyed
                   THEN REGEX_PATTERNS[k].pattern.en
                   ELSE REGEX_PATTERNS[k].pattern,
                   Strip(text))
         THEN REGEX_PATTERNS[k].type
         ELSE RegexFrom_englishOnly(lang, text, k + 1)

\* the first REGEX_PATTERNS entry, in table order, whose pattern is found in
\* the stripped text (lines 101-108)
RECURSIVE RegexFrom(_, _, _)
RegexFrom(lang, text, k) ==
    IF k > Len(REGEX_PATTERNS) THEN NoType
    ELSE IF Search(IF REGEX_PATTERNS[k].keyed
                   THEN PatternFor(REGEX_PATTERNS[k].pattern, lang)
                   ELSE REGEX_PATTERNS[k].pattern,
                   Strip(text))
         THEN REGEX_PATTERNS[k].type
         ELSE RegexFrom(lang, text, k + 1)

RegexFallback(det, text) == RegexFrom(DetectLanguage(det, text), text, 1)

\* the cascade of Pass 3 with the name branch tested before the gender branch
ClassifyPrimaryLine_nameFirst(det, text) ==
    LET lang == DetectLanguage(det, text)
        cleaned == DigitsOf(text)
    IN  IF Len(cleaned) = 10 /\ cleaned[1] \in {55, 56, 57} THEN "Phone Number"
        ELSE IF Search(Pat_Aadhaar, text) THEN "Aadhaar Number"
        ELSE IF Search(Pat_Email, text) THEN "Email Address"
        ELSE IF Search(Pat_DOB, text) THEN "Date of Birth"
        ELSE IF Search(PatternFor(Pat_Name, lang), text) THEN "Name"
        ELSE IF Search(PatternFor(Pat_Gender, lang), text) THEN "Gender"
        ELSE NoType

\* the if/elif cascade of Pass 3 (lines 117-131)
ClassifyPrimaryLine(det, text) ==
    LET lang == DetectLanguage(det, text)
        cleaned == DigitsOf(text)
    IN  IF Len(cleaned) = 10 /\ cleaned[1] \in {55, 56, 57} THEN "Phone Number"
        ELSE IF Search(Pat_Aadhaar, text) THEN "Aadhaar Number"
        ELSE IF Search(Pat_Email, text) THEN "Email Address"
        ELSE IF Search(Pat_DOB, text) THEN "Date of Birth"
        ELSE IF Search(PatternFor(Pat_Gender, lang), text) THEN "Gender"
        ELSE IF Search(PatternFor(Pat_Name, lang), text) THEN "Name"
        ELSE NoType

\* the cascade of Pass 4 with a rule on twelve digits that Pass 3 has not
ClassifySecondaryLine_twelveDigits(det, text) ==
    LET lang == DetectLanguage(det, text)
        cleaned == DigitsOf(text)
    IN  IF Len(cleaned) = 10 /\ cleaned[1] \in {55, 56, 57} THEN "Phone Number"
        ELSE IF Len(cleaned) = 12 THEN "Aadhaar Number"
        ELSE IF Search(Pat_Aadhaar, text) THEN "Aadhaar Number"
        ELSE IF Search(Pat_Email, text) THEN "Email Address"
        ELSE IF Search(Pat_DOB, text) THEN "Date of Birth"
        ELSE IF Search(PatternFor(Pat_Gender, lang), text) THEN "Gender"
        ELSE IF Search(PatternFor(Pat_Name, lang), text) THEN "Name"
        ELSE NoType

\* the if/elif cascade of Pass 4 (lines 148-162)
ClassifySecondaryLine(det, text) ==
    LET lang == DetectLanguage(det, text)
        cleaned == DigitsOf(text)
    IN  IF Len(cleaned) = 10 /\ cleaned[1] \in {55, 56, 57} THEN "Phone Number"
        ELSE IF Search(Pat_Aadhaar, text) THEN "Aadhaar Number"
        ELSE IF Search(Pat_Email, text) THEN "Email Address"
        ELSE IF Search(Pat_DOB, text) THEN "Date of Birth"
        ELSE IF Search(PatternFor(Pat_Gender, lang), text) THEN "Gender"
        ELSE IF Search(PatternFor(Pat_Name, lang), text) THEN "Name"
        ELSE NoType

\* Pass 4's hybrid fallback (lines 166-172): the geometry and confidence of the
\* first LINE block whose stripped text is the line's text, else the line's own
IsLineWithText(block, text) ==
    BlockTypeOf(block) = "LINE" /\ Strip(TextOf(block)) = text

\* the hybrid fallback taking the first LINE block, whatever its text
HybridGeometry_anyLine(blocks, line, text) ==
    LET bounding_box == IF Has(line, "bounding_box") THEN line.bounding_box ELSE EmptyDict
        confidence == IF Has(line, "confidence") THEN line.confidence ELSE 0
    IN  IF \E b \in 1..Len(blocks) : BlockTypeOf(blocks[b]) = "LINE"
        THEN LET block == blocks[CHOOSE b \in 1..Len(blocks) :
                            /\ BlockTypeOf(blocks[b]) = "LINE"
                            /\ \A c \in 1..(b - 1) : BlockTypeOf(blocks[c]) # "LINE"]
             IN  [bounding_box |-> BoxOf(block, bounding_box),
                  confidence |-> ConfidenceOf(block, confidence)]
        ELSE [bounding_box |-> bounding_box, confidence |-> confidence]

HybridGeometry(blocks, line, text) ==
    LET bounding_box == IF Has(line, "bounding_box") THEN line.bounding_box ELSE EmptyDict
        confidence == IF Has(line, "confidence") THEN line.confidence ELSE 0
    IN  IF \E b \in 1..Len(blocks) : IsLineWithText(blocks[b], text)
        THEN LET block == blocks[CHOOSE b \in 1..Len(blocks) :
                            /\ IsLineWithText(blocks[b], text)
                            /\ \A c \in 1..(b - 1) : ~IsLineWithText(blocks[c], text)]
             IN  [bounding_box |-> BoxOf(block, bounding_box),
                  confidence |-> ConfidenceOf(block, confidence)]
        ELSE [bounding_box |-> bounding_box, confidence |-> confidence]

\* the call ends: it returns pii_fields or propagates a KeyError
Finish(status, fields) ==
    history' = Append(history, [blocks |-> textract_blocks, lines |-> tesseract_lines,
                                status |-> status, fields |-> fields])

\* lines 81-85: the locals, and _extract_key_value_pairs
Call ==
    /\ pc = "ready"
    /\ pii_fields' = <<>>
    /\ emitted_by' = <<>>
    /\ idx' = 1
    /\ IF ExtractRaises(textract_blocks)
       THEN /\ pc' = "raised"
            /\ Finish("raised", <<>>)
            /\ UNCHANGED <<key_value_pairs, seen_values>>
       ELSE /\ pc' = "pass1"
            /\ key_value_pairs' = ExtractKeyValuePairs(textract_blocks)
            /\ seen_values' = FreshSeenValues(seen_values)
            /\ UNCHANGED history
    /\ UNCHANGED <<detector, textract_blocks, tesseract_lines, mask_vars>>

\* the append without seen_values.add
Emit_forgetsSeen(field, pass) ==
    /\ pii_fields' = Append(pii_fields, field)
    /\ emitted_by' = Append(emitted_by, [pass |-> pass, item |-> idx])
    /\ seen_values' = seen_values

\* pii_fields.append(field); seen_values.add(text)  (lines 92-94, 105-107,
\* 139-141, 179-181)
Emit(field, pass) ==
    /\ pii_fields' = Append(pii_fields, field)
    /\ emitted_by' = Append(emitted_by, [pass |-> pass, item |-> idx])
    /\ seen_values' = seen_values \cup {field.value}

NoEmit == UNCHANGED <<pii_fields, emitted_by, seen_values>>

\* lines 88-94, one iteration (or the end of the loop)
Pass1 ==
    /\ pc = "pass1"
    /\ IF idx > Len(key_value_pairs)
       THEN pc' = "pass2" /\ idx' = 1 /\ NoEmit
       ELSE LET key == key_value_pairs[idx][1]
                value == key_value_pairs[idx][2]
                pii_type == MapToPiiType(NormalizeKey(key))
            IN  /\ pc' = pc
                /\ idx' = idx + 1
                /\ IF /\ pii_type # NoType
                      /\ value.text \notin seen_values
                      /\ ~IsNonPii(detector, value.text)
                   THEN Emit(BuildField(pii_type, value), 1)
                   ELSE NoEmit
    /\ UNCHANGED <<detector, textract_blocks, tesseract_lines, key_value_pairs,
                   history, mask_vars>>

\* line 98 without the seen_values test
Pass2Skips_blacklistOnly(det, seen, text) == IsNonPii(det, text)

\* line 98: the pair is left to no regex
Pass2Skips(det, seen, text) == text \in seen \/ IsNonPii(det, text)

\* lines 97-108, one iteration (or the end of the loop)
Pass2 ==
    /\ pc = "pass2"
    /\ IF idx > Len(key_value_pairs)
       THEN pc' = "pass3" /\ idx' = 1 /\ NoEmit
       ELSE LET value == key_value_pairs[idx][2]
            IN  /\ pc' = pc
                /\ idx' = idx + 1
                /\ IF Pass2Skips(detector, seen_values, value.text)
                   THEN NoEmit
                   ELSE LET pii_type == RegexFallback(detector, value.text)
                        IN  IF pii_type # NoType
                            THEN Emit(BuildField(pii_type, value), 2)
                            ELSE NoEmit
    /\ UNCHANGED <<detector, textract_blocks, tesseract_lines, key_value_pairs,
                   history, mask_vars>>

\* lines 111-141, one iteration (or the end of the loop)
Pass3 ==
    /\ pc = "pass3"
    /\ IF idx > Len(textract_blocks)
       THEN pc' = "pass4" /\ idx' = 1 /\ NoEmit
       ELSE LET block == textract_blocks[idx]
                text == Strip(TextOf(block))
            IN  /\ pc' = pc
                /\ idx' = idx + 1
                /\ IF BlockTypeOf(block) # "LINE" \/ text = <<>>
                   THEN NoEmit
                   ELSE IF text \in seen_values \/ IsNonPii(detector, text)
                   THEN NoEmit
                   ELSE LET pii_type == ClassifyPrimaryLine(detector, text)
                        IN  IF pii_type # NoType
                            THEN Emit([type |-> pii_type, value |-> text,
                                       bounding_box |-> BoxOf(block, EmptyDict),
                                       confidence |-> ConfidenceOf(block, 0)], 3)
                            ELSE NoEmit
    /\ UNCHANGED <<detector, textract_blocks, tesseract_lines, key_value_pairs,
                   history, mask_vars>>

\* lines 144-181, one iteration; line["text"] is a plain subscript
Pass4 ==
    /\ pc = "pass4"
    /\ idx <= Len(tesseract_lines)
    /\ LET line == tesseract_lines[idx]
       IN  IF ~Has(line, "text")
           THEN /\ pc' = "raised"
                /\ Finish("raised", <<>>)
                /\ UNCHANGED idx
                /\ NoEmit
           ELSE LET text == Strip(line.text)
                IN  /\ pc' = pc
                    /\ idx' = idx + 1
                    /\ UNCHANGED history
                    /\ IF text = <<>> \/ text \in seen_values \/ IsNonPii(detector, text)
                       THEN NoEmit
                       ELSE LET pii_type == ClassifySecondaryLine(detector, text)
                                geo == HybridGeometry(textract_blocks, line, text)
                            IN  IF pii_type # NoType
                                THEN Emit([type |-> pii_type, value |-> text,
                                           bounding_box |-> geo.bounding_box,
                                           confidence |-> geo.confidence], 4)
                                ELSE NoEmit
    /\ UNCHANGED <<detector, textract_blocks, tesseract_lines, key_value_pairs, mask_vars>>

\* lines 183-184
Return ==
    /\ pc = "pass4"
    /\ idx > Len(tesseract_lines)
    /\ pc' = "returned"
    /\ Finish("returned", pii_fields)
    /\ UNCHANGED <<detector, textract_blocks, tesseract_lines, key_value_pairs, idx,
                   seen_values, pii_fields, emitted_by, mask_vars>>

\* cv2.imdecode returns None for bytes that are no image
NoImage == EmptyDict

MaskIdle ==
    /\ image = NoImage /\ mask_input = <<>> /\ mask_type = "rectangle"
    /\ mpc = "idle" /\ mi = 1 /\ masked_fields = 0 /\ painted = <<>>

\* a detector is constructed and detect_pii is about to be called on a document
Init ==
    /\ \E doc \in Documents :
          /\ textract_blocks = doc.blocks /\ tesseract_lines = doc.lines
          /\ detector \in DetectorsOn(doc)
    /\ pc = "ready"
    /\ key_value_pairs = <<>>
    /\ idx = 1
    /\ seen_values = {}
    /\ pii_fields = <<>>
    /\ emitted_by = <<>>
    /\ history = <<>>
    /\ MaskIdle

Next == Call \/ Pass1 \/ Pass2 \/ Pass3 \/ Pass4 \/ Return

Spec == Init /\ [][Next]_vars

\* detect_pii called again on the same detector (a new request of the process)
MaxCalls == 3

CallDocs ==
    {Document(<<<<T_FullNameKey, T_JohnDoe>>>>, <<T_JohnDoePadded>>, <<T_JohnDoe>>),
     Document(<<<<T_RefNoKey, T_Phone>>>>, <<>>, <<T_Phone>>),
     Document(<<<<T_FullNameKey, T_FrenchForm>>>>, <<T_Phone>>, <<T_Email>>),
     [blocks |-> TestBlocks(FALSE), lines |-> <<>>]}

NewCall ==
    /\ pc \in {"returned", "raised"}
    /\ Len(history) < MaxCalls
    /\ \E doc \in CallDocs :
          textract_blocks' = doc.blocks /\ tesseract_lines' = doc.lines
    /\ pc' = "ready"
    /\ UNCHANGED <<detector, key_value_pairs, idx, seen_values, pii_fields, emitted_by,
                   history, mask_vars>>

InitCalls ==
    /\ detector \in Detectors
    /\ \E doc \in CallDocs :
          textract_blocks = doc.blocks /\ tesseract_lines = doc.lines
    /\ pc = "ready"
    /\ key_value_pairs = <<>>
    /\ idx = 1
    /\ seen_values = {}
    /\ pii_fields = <<>>
    /\ emitted_by = <<>>
    /\ history = <<>>
    /\ MaskIdle

NextCalls == Next \/ NewCall

SpecCalls == InitCalls /\ [][NextCalls]_vars

\* ------------------------------------------------------------ mask_image

\* int(num / den) for integers num, den > 0: Python's int() truncates toward 0
ToInt(num, den) == IF num >= 0 THEN num \div den ELSE -((-num) \div den)

\* lines 20-21: not bbox or a key missing
BoxMissing(field) ==
    LET bbox == IF Has(field, "bounding_box") THEN field.bounding_box ELSE EmptyDict
    IN  \/ bbox = EmptyDict
        \/ ~Has(bbox, "Left") \/ ~Has(bbox, "Top")
        \/ ~Has(bbox, "Width") \/ ~Has(bbox, "Height")

\* lines 26-29; box values are thousandths, so bbox["Left"] * width is
\* Left * width / 1000
PixelRect(bbox, width, height) ==
    [x |-> ToInt(bbox.Left * width, 1000),
     y |-> ToInt(bbox.Top * height, 1000),
     w |-> ToInt(bbox.Width * width, 1000),
     h |-> ToInt(bbox.Height * height, 1000)]

\* line 32 without the right-edge test
RectInvalid_noRightEdge(r, width, height) ==
    r.x < 0 \/ r.y < 0 \/ r.w <= 0 \/ r.h <= 0 \/ r.y + r.h > height

\* line 32
RectInvalid(r, width, height) ==
    r.x < 0 \/ r.y < 0 \/ r.w <= 0 \/ r.h <= 0 \/ r.x + r.w > width \/ r.y + r.h > height

\* break in place of continue: the loop ends at the skipped field
AfterSkip_break(i, n) == n + 1

\* where the loop goes on after a field is skipped (continue, lines 23 and 34)
AfterSkip(i, n) == i + 1

\* lines 10-17: decode; ValueError when the bytes are no image
MaskStart ==
    /\ mpc = "idle"
    /\ IF image = NoImage
       THEN mpc' = "raised" /\ UNCHANGED <<mi, masked_fields, painted>>
       ELSE mpc' = "loop" /\ mi' = 1 /\ masked_fields' = 0 /\ painted' = <<>>
    /\ UNCHANGED <<image, mask_input, mask_type, detect_vars>>

\* lines 19-47, one iteration
MaskField ==
    /\ mpc = "loop"
    /\ mi <= Len(mask_input)
    /\ LET field == mask_input[mi]
       IN  IF BoxMissing(field)
           THEN mi' = AfterSkip(mi, Len(mask_input)) /\ UNCHANGED <<masked_fields, painted>>
           ELSE LET r == PixelRect(field.bounding_box, image.width, image.height)
                IN  IF RectInvalid(r, image.width, image.height)
                    THEN /\ mi' = AfterSkip(mi, Len(mask_input))
                         /\ UNCHANGED <<masked_fields, painted>>
                    ELSE /\ mi' = mi + 1
                         /\ masked_fields' = masked_fields + 1
                         /\ painted' = Append(painted,
                               [field |-> mi, x |-> r.x, y |-> r.y, w |-> r.w, h |-> r.h,
                                how |-> IF mask_type = "blur" THEN "blur" ELSE "rectangle"])
    /\ mpc' = mpc
    /\ UNCHANGED <<image, mask_input, mask_type, detect_vars>>

\* lines 49-52
MaskReturn ==
    /\ mpc = "loop"
    /\ mi > Len(mask_input)
    /\ mpc' = "returned"
    /\ UNCHANGED <<image, mask_input, mask_type, mi, masked_fields, painted, detect_vars>>

MaxFields == 3

\* boxes in thousandths: two valid ones, and the test box 0.1, 0.1, 0.2, 0.1
GoodBoxes ==
    {[Left |-> 100, Top |-> 100, Width |-> 200, Height |-> 100],
     [Left |-> 0, Top |-> 0, Width |-> 1000, Height |-> 1000]}

\* width 0; left 0.5 + width 0.6 (the box 0.5, 0.5, 0.6, 0.1); left -0.1;
\* left -0.005; no Width
OddBoxes ==
    {[Left |-> 100, Top |-> 100, Width |-> 0, Height |-> 100],
     [Left |-> 500, Top |-> 500, Width |-> 600, Height |-> 100],
     [Left |-> -100, Top |-> 100, Width |-> 200, Height |-> 100],
     [Left |-> -5, Top |-> 100, Width |-> 200, Height |-> 100],
     [Left |-> 100, Top |-> 100, Height |-> 100]}

MaskFieldChoices ==
    {[type |-> "Name", value |-> T_JohnDoe, bounding_box |-> b, confidence |-> 99] :
        b \in GoodBoxes \cup OddBoxes \cup {EmptyDict}}

ImageChoices == {[width |-> 100, height |-> 100], [width |-> 200, height |-> 50]}

DetectIdle ==
    /\ detector = {} /\ textract_blocks = <<>> /\ tesseract_lines = <<>>
    /\ pc = "ready" /\ key_value_pairs = <<>> /\ idx = 1 /\ seen_values = {}
    /\ pii_fields = <<>> /\ emitted_by = <<>> /\ history = <<>>

\* mask_image is about to be called on an image and a list of fields
MaskInit ==
    /\ \/ image \in ImageChoices /\ mask_type \in {"rectangle", "blur"}
       \/ image = NoImage /\ mask_type = "rectangle"
       \/ image = [width |-> 100, height |-> 100] /\ mask_type = "pixelate"
    /\ mask_input \in SeqsUpTo(MaskFieldChoices, MaxFields)
    /\ mpc = "idle"
    /\ mi = 1
    /\ masked_fields = 0
    /\ painted = <<>>
    /\ DetectIdle

MaskNext == MaskStart \/ MaskField \/ MaskReturn

SpecMask == MaskInit /\ [][MaskNext]_vars

\* ---------------------------------------------------------------- claims

FieldsWithValue(t) == {i \in 1..Len(pii_fields) : pii_fields[i].value = t}

\* C1: the list detect_pii builds never holds two fields with the same value
\* text, whichever passes emitted them.
C1_NoDuplicateValues ==
    \A i, j \in 1..Len(pii_fields) :
        i # j => pii_fields[i].value # pii_fields[j].value

\* C1 witness: a call has returned on a document in which "John Doe" is a
\* key-value value, a primary LINE and a secondary line, with one field for it.
C1_Witness ==
    /\ pc = "returned"
    /\ \E k \in 1..Len(key_value_pairs) : key_value_pairs[k][2].text = T_JohnDoe
    /\ \E b \in 1..Len(textract_blocks) : IsLineWithText(textract_blocks[b], T_JohnDoe)
    /\ \E l \in 1..Len(tesseract_lines) : Strip(tesseract_lines[l].text) = T_JohnDoe
    /\ Cardinality(FieldsWithValue(T_JohnDoe)) = 1

ContainsAnyTerm(text) == \E lang \in DOMAIN NON_PII_BLACKLIST : HasTermOf(lang, text)

\* C2 as stated: no field of the list detect_pii returns has a value that
\* contains a term of the blacklist (of any language), whatever language the
\* detector reports for it.
C2_Original ==
    pc = "returned" => \A i \in 1..Len(pii_fields) : ~ContainsAnyTerm(pii_fields[i].value)

\* C2 amended: no field of the list detect_pii returns has a value that
\* contains, case-insensitively, a term of the blacklist of the language the
\* detector reports for that value.
C2_BlacklistOfDetectedLanguage ==
    pc = "returned" =>
    \A i \in 1..Len(pii_fields) :
        LET lang == DetectLanguage(detector, pii_fields[i].value)
        IN  lang \in DOMAIN NON_PII_BLACKLIST => ~HasTermOf(lang, pii_fields[i].value)

\* C2 witness: a call has returned on a form whose pair "Full Name:" ->
\* "Government of India" (an alias key, an English blacklisted value that the
\* name regex matches) yielded no field.
C2_Witness ==
    /\ pc = "returned"
    /\ \E k \in 1..Len(key_value_pairs) :
          /\ key_value_pairs[k][1] = Lower(T_FullNameKey)
          /\ key_value_pairs[k][2].text = T_GovIndia
    /\ FieldsWithValue(T_GovIndia) = {}

AliasType(pair) == MapToPiiType(NormalizeKey(pair[1]))

\* the pair's key is an alias and its value, not blacklisted, matches a regex
C3_Applies(pair) ==
    /\ AliasType(pair) # NoType
    /\ ~IsNonPii(detector, pair[2].text)
    /\ RegexFallback(detector, pair[2].text) # NoType

\* C3 as stated: when detect_pii has returned, every such pair has exactly one
\* field for its value text, of the category of the pair's own key alias.
C3_Original ==
    pc = "returned" =>
        \A k \in 1..Len(key_value_pairs) :
            C3_Applies(key_value_pairs[k]) =>
                \E i \in 1..Len(pii_fields) :
                    /\ FieldsWithValue(key_value_pairs[k][2].text) = {i}
                    /\ pii_fields[i].type = AliasType(key_value_pairs[k])

\* the first pair, in map order, with this value text and an alias key
FirstAliasPair(t) ==
    CHOOSE j \in 1..Len(key_value_pairs) :
        /\ key_value_pairs[j][2].text = t /\ AliasType(key_value_pairs[j]) # NoType
        /\ \A m \in 1..(j - 1) :
              ~(key_value_pairs[m][2].text = t /\ AliasType(key_value_pairs[m]) # NoType)

\* C3 amended: when detect_pii has returned, every such pair has exactly one
\* field for its value text; Pass 1 emitted it, and its category is the alias
\* category of the first pair, in map order, that has this value text and an
\* alias key.
C3_PassPriority ==
    pc = "returned" =>
        \A k \in 1..Len(key_value_pairs) :
            C3_Applies(key_value_pairs[k]) =>
                \E i \in 1..Len(pii_fields) :
                    /\ FieldsWithValue(key_value_pairs[k][2].text) = {i}
                    /\ emitted_by[i].pass = 1
                    /\ pii_fields[i].type =
                          AliasType(key_value_pairs[FirstAliasPair(key_value_pairs[k][2].text)])

\* C3 witness: a call has returned on a form with the pair "Mobile" ->
\* "John Doe" (alias of Phone Number, value matching the name regex), and the
\* one field for "John Doe" is a Phone Number.
C3_Witness ==
    /\ pc = "returned"
    /\ \E k \in 1..Len(key_value_pairs) :
          /\ key_value_pairs[k][1] = Lower(T_MobileKey)
          /\ key_value_pairs[k][2].text = T_JohnDoe
    /\ \E i \in 1..Len(pii_fields) :
          /\ FieldsWithValue(T_JohnDoe) = {i}
          /\ pii_fields[i].type = "Phone Number"

\* the document of Scenario A: one KEY block whose Text is an alias, linked by
\* a VALUE relation to the one VALUE block, whose Text is not blacklisted; no
\* other pair, no LINE block, no secondary line
C4_IsScenario(k, v) ==
    /\ tesseract_lines = <<>>
    /\ \A b \in 1..Len(textract_blocks) :
          /\ BlockTypeOf(textract_blocks[b]) # "LINE"
          /\ IsKeyValueSet(textract_blocks[b]) => b \in {k, v}
    /\ IsKeyBlock(textract_blocks[k]) /\ Has(textract_blocks[k], "Text")
    /\ IsValueBlock(textract_blocks[v]) /\ Has(textract_blocks[v], "Text")
    /\ Has(textract_blocks[v], "Id")
    /\ MapToPiiType(NormalizeKey(textract_blocks[k].Text)) # NoType
    /\ \E r \in 1..Len(RelsOf(textract_blocks[k])) :
          /\ RelsOf(textract_blocks[k])[r].Type = "VALUE"
          /\ RelsOf(textract_blocks[k])[r].Ids = <<textract_blocks[v].Id>>
    /\ textract_blocks[v].Text # <<>>
    /\ ~IsNonPii(detector, textract_blocks[v].Text)

\* C4: when detect_pii ends on the document of Scenario A it has returned
\* exactly one field, of the alias's category, whose value is the VALUE
\* block's text.
C4_ScenarioA ==
    \A k, v \in 1..Len(textract_blocks) :
        (pc \in {"returned", "raised"} /\ C4_IsScenario(k, v)) =>
            /\ pc = "returned"
            /\ Len(pii_fields) = 1
            /\ pii_fields[1].type = MapToPiiType(NormalizeKey(textract_blocks[k].Text))
            /\ pii_fields[1].value = textract_blocks[v].Text

\* C5: detect_pii never raises, whatever the blocks and lines lack.
C5_NeverRaises == pc # "raised"

\* ---------------------------------------------------- claims on mask_image

C6_Invalid(i) ==
    \/ BoxMissing(mask_input[i])
    \/ RectInvalid(PixelRect(mask_input[i].bounding_box, image.width, image.height),
                   image.width, image.height)

PaintedFields == {painted[p].field : p \in 1..Len(painted)}

\* C6: mask_image fails only on bytes that are no image; and when it has
\* returned on a list of N fields of which exactly one has an invalid box, it
\* has masked N-1 fields: every field but the invalid one, once each, wherever
\* the invalid one stands in the list.
C6_RejectionIsLocal ==
    /\ mpc = "raised" => image = NoImage
    /\ (mpc = "returned" /\ Len(mask_input) > 0) =>
          \A k \in 1..Len(mask_input) :
              ({i \in 1..Len(mask_input) : C6_Invalid(i)} = {k}) =>
                  /\ masked_fields = Len(mask_input) - 1
                  /\ Len(painted) = Len(mask_input) - 1
                  /\ PaintedFields = (1..Len(mask_input)) \ {k}

\* C6 witness: mask_image has returned on three fields, the second with a box
\* of width 0 and the others valid, and has masked two.
C6_Witness ==
    /\ mpc = "returned"
    /\ Len(mask_input) = 3
    /\ mask_input[2].bounding_box = [Left |-> 100, Top |-> 100, Width |-> 0, Height |-> 100]
    /\ ~C6_Invalid(1) /\ ~C6_Invalid(3)
    /\ masked_fields = 2

\* the greatest integer q with q * den <= num, for den > 0
C7_Floor(num, den) ==
    IF num >= 0 THEN num \div den ELSE -(((-num) + den - 1) \div den)

\* num / den rounded toward zero: the floor, plus one when num is negative
\* and den does not divide it
C7_Trunc(num, den) ==
    IF num < 0 /\ C7_Floor(num, den) * den # num
    THEN C7_Floor(num, den) + 1
    ELSE C7_Floor(num, den)

C7_Incomplete(field) ==
    \/ ~Has(field, "bounding_box")
    \/ \E key \in {"Left", "Top", "Width", "Height"} : ~Has(field.bounding_box, key)

C7_FloorRect(bbox) ==
    [x |-> C7_Floor(bbox.Left * image.width, 1000),
     y |-> C7_Floor(bbox.Top * image.height, 1000),
     w |-> C7_Floor(bbox.Width * image.width, 1000),
     h |-> C7_Floor(bbox.Height * image.height, 1000)]

C7_TruncRect(bbox) ==
    [x |-> C7_Trunc(bbox.Left * image.width, 1000),
     y |-> C7_Trunc(bbox.Top * image.height, 1000),
     w |-> C7_Trunc(bbox.Width * image.width, 1000),
     h |-> C7_Trunc(bbox.Height * image.height, 1000)]

C7_Rejects(r) ==
    r.w <= 0 \/ r.h <= 0 \/ r.x < 0 \/ r.y < 0
        \/ r.x + r.w > image.width \/ r.y + r.h > image.height

\* the fields the loop has gone through
C7_Processed == IF mpc \in {"loop", "returned"} THEN 1..(mi - 1) ELSE {}

C7_PaintedAs(i, r) ==
    \E p \in 1..Len(painted) :
        painted[p].field = i /\ painted[p].x = r.x /\ painted[p].y = r.y
            /\ painted[p].w = r.w /\ painted[p].h = r.h

\* C7 as stated: a field the loop has gone through is rejected exactly when
\* its box is absent or incomplete or the rectangle of the floors
\* floor(left*W), floor(top*H), floor(width*W), floor(height*H) has w <= 0,
\* h <= 0, x < 0, y < 0, x + w > W or y + h > H; otherwise that rectangle is
\* painted.
C7_Original ==
    \A i \in C7_Processed :
        IF C7_Incomplete(mask_input[i]) THEN i \notin PaintedFields
        ELSE IF C7_Rejects(C7_FloorRect(mask_input[i].bounding_box))
        THEN i \notin PaintedFields
        ELSE C7_PaintedAs(i, C7_FloorRect(mask_input[i].bounding_box))

ScenarioFBox == [Left |-> 500, Top |-> 500, Width |-> 600, Height |-> 100]

\* C7 amended: the rectangle is that of the products rounded toward zero (the
\* floor for a product that is not negative). A field the loop has gone
\* through is rejected exactly when its box is absent or incomplete or that
\* rectangle has w <= 0, h <= 0, x < 0, y < 0, x + w > W or y + h > H; the box
\* 0.5, 0.5, 0.6, 0.1 on a 100x100 image is rejected; every painted rectangle
\* lies inside the image with w > 0 and h > 0.
C7_Rectifier ==
    /\ \A i \in C7_Processed :
          IF C7_Incomplete(mask_input[i]) THEN i \notin PaintedFields
          ELSE IF C7_Rejects(C7_TruncRect(mask_input[i].bounding_box))
          THEN i \notin PaintedFields
          ELSE C7_PaintedAs(i, C7_TruncRect(mask_input[i].bounding_box))
    /\ \A i \in C7_Processed :
          (image = [width |-> 100, height |-> 100]
              /\ mask_input[i].bounding_box = ScenarioFBox) => i \notin PaintedFields
    /\ \A p \in 1..Len(painted) :
          /\ 0 <= painted[p].x /\ 0 <= painted[p].y
          /\ painted[p].w > 0 /\ painted[p].h > 0
          /\ painted[p].x + painted[p].w <= image.width
          /\ painted[p].y + painted[p].h <= image.height

\* C7 witness: mask_image has returned on a 100x100 image and a list holding
\* the box 0.5, 0.5, 0.6, 0.1 (not painted), a box of left -0.1 (not painted)
\* and the box 0.1, 0.1, 0.2, 0.1 (painted as 10, 10, 20, 10).
C7_Witness ==
    /\ mpc = "returned"
    /\ image = [width |-> 100, height |-> 100]
    /\ Len(mask_input) = 3
    /\ mask_input[1].bounding_box = ScenarioFBox
    /\ mask_input[2].bounding_box = [Left |-> -100, Top |-> 100, Width |-> 200, Height |-> 100]
    /\ mask_input[3].bounding_box = [Left |-> 100, Top |-> 100, Width |-> 200, Height |-> 100]
    /\ PaintedFields = {3}
    /\ C7_PaintedAs(3, [x |-> 10, y |-> 10, w |-> 20, h |-> 10])

\* ---------------------------------------------------- claims on the lines

\* the primary LINE blocks whose text, stripped, is t
C8_Matching(t) ==
    {b \in 1..Len(textract_blocks) :
        BlockTypeOf(textract_blocks[b]) = "LINE" /\ Strip(TextOf(textract_blocks[b])) = t}

C8_First(S) == CHOOSE b \in S : \A c \in S : b <= c

C8_OwnBox(line) == IF Has(line, "bounding_box") THEN line.bounding_box ELSE EmptyDict

C8_OwnConfidence(line) == IF Has(line, "confidence") THEN line.confidence ELSE 0

\* C8: every field Pass 4 emitted from a secondary line carries the geometry
\* and confidence of the first primary LINE block whose text is the field's
\* value (where that block has them) if there is such a block, and the
\* secondary line's own geometry and confidence if there is none.
C8_HybridGeometry ==
    \A i \in 1..Len(pii_fields) :
        emitted_by[i].pass = 4 =>
            LET line == tesseract_lines[emitted_by[i].item]
                m == C8_Matching(pii_fields[i].value)
            IN  IF m # {}
                THEN /\ pii_fields[i].bounding_box =
                            BoxOf(textract_blocks[C8_First(m)], C8_OwnBox(line))
                     /\ pii_fields[i].confidence =
                            ConfidenceOf(textract_blocks[C8_First(m)], C8_OwnConfidence(line))
                ELSE /\ pii_fields[i].bounding_box = C8_OwnBox(line)
                     /\ pii_fields[i].confidence = C8_OwnConfidence(line)

\* C8 witness: a call has returned on a document with a primary LINE block
\* of another text and the secondary line "jane@example.com", and Pass 4
\* emitted the Email Address field with the secondary line's own box.
C8_Witness ==
    /\ pc = "returned"
    /\ \E b \in 1..Len(textract_blocks) : BlockTypeOf(textract_blocks[b]) = "LINE"
    /\ \E i \in 1..Len(pii_fields) :
          /\ emitted_by[i].pass = 4
          /\ pii_fields[i].value = T_Email
          /\ pii_fields[i].type = "Email Address"
          /\ C8_Matching(T_Email) = {}
          /\ Has(tesseract_lines[emitted_by[i].item], "bounding_box")
          /\ pii_fields[i].bounding_box = tesseract_lines[emitted_by[i].item].bounding_box
          /\ pii_fields[i].bounding_box # EmptyDict

C9_Regexes(lang) ==
    <<[type |-> "Aadhaar Number", pattern |-> Pat_Aadhaar],
      [type |-> "Email Address", pattern |-> Pat_Email],
      [type |-> "Date of Birth", pattern |-> Pat_DOB],
      [type |-> "Gender", pattern |-> PatternFor(Pat_Gender, lang)],
      [type |-> "Name", pattern |-> PatternFor(Pat_Name, lang)]>>

C9_FirstMatch(ps, text) ==
    LET hits == {k \in 1..Len(ps) : Search(ps[k].pattern, text)}
    IN  IF hits = {} THEN NoType ELSE ps[CHOOSE k \in hits : \A j \in hits : k <= j].type

C9_IsPhone(text) == Len(DigitsOf(text)) = 10 /\ DigitsOf(text)[1] \in {55, 56, 57}

\* the cascade as stated, with the rule on twelve digits
C9_StatedCategory(det, text) ==
    IF C9_IsPhone(text) THEN "Phone Number"
    ELSE IF Len(DigitsOf(text)) = 12 THEN "Aadhaar Number"
    ELSE C9_FirstMatch(C9_Regexes(DetectLanguage(det, text)), text)

\* the cascade without it
C9_Category(det, text) ==
    IF C9_IsPhone(text) THEN "Phone Number"
    ELSE C9_FirstMatch(C9_Regexes(DetectLanguage(det, text)), text)

\* the standalone lines: primary LINE blocks (Pass 3), secondary lines (Pass 4)
C9_Items ==
    {[pass |-> 3, item |-> b] : b \in {c \in 1..Len(textract_blocks) :
                                        BlockTypeOf(textract_blocks[c]) = "LINE"}}
        \cup {[pass |-> 4, item |-> l] : l \in 1..Len(tesseract_lines)}

C9_Text(it) ==
    IF it.pass = 3 THEN Strip(TextOf(textract_blocks[it.item]))
    ELSE Strip(tesseract_lines[it.item].text)

\* no field emitted before the line was reached has the line's text
C9_Unseen(it) ==
    \A i \in 1..Len(pii_fields) :
        (emitted_by[i].pass < it.pass
            \/ (emitted_by[i].pass = it.pass /\ emitted_by[i].item < it.item))
            => pii_fields[i].value # C9_Text(it)

C9_Decided(it, category) ==
    IF category = NoType
    THEN \A i \in 1..Len(pii_fields) : emitted_by[i] # it
    ELSE \E i \in 1..Len(pii_fields) :
            /\ emitted_by[i] = it
            /\ pii_fields[i].type = category
            /\ pii_fields[i].value = C9_Text(it)
            /\ \A j \in 1..Len(pii_fields) : emitted_by[j] = it => j = i

C9_Standalone(it) ==
    C9_Text(it) # <<>> /\ C9_Unseen(it) /\ ~IsNonPii(detector, C9_Text(it))

\* C9 as stated: when detect_pii has returned, every non-empty, unseen,
\* non-blacklisted standalone line got the category of the cascade: 10 digits
\* led by 7, 8 or 9 => Phone Number; else exactly 12 digits => Aadhaar Number;
\* else the first match of the ID-number, email, date-of-birth, gender and
\* name regexes; none => no field.
C9_Original ==
    pc = "returned" =>
        \A it \in C9_Items :
            C9_Standalone(it) => C9_Decided(it, C9_StatedCategory(detector, C9_Text(it)))

\* C9 amended: the same cascade without the rule on twelve digits: after the
\* phone test the ID-number regex decides (twelve digits in a row, or three
\* groups of four separated by at most one whitespace character each), then
\* the email, date-of-birth, gender and name regexes; none => no field.
C9_LineCascade ==
    pc = "returned" =>
        \A it \in C9_Items :
            C9_Standalone(it) => C9_Decided(it, C9_Category(detector, C9_Text(it)))

\* C9 witness: a call has returned on a document whose primary line
\* "123456789012" became an Aadhaar Number field in Pass 3 and whose
\* secondary line "9876543210" became a Phone Number field in Pass 4.
C9_Witness ==
    /\ pc = "returned"
    /\ \E i, j \in 1..Len(pii_fields) :
          /\ emitted_by[i].pass = 3
          /\ pii_fields[i].value = T_Aadhaar /\ pii_fields[i].type = "Aadhaar Number"
          /\ emitted_by[j].pass = 4
          /\ pii_fields[j].value = T_Phone /\ pii_fields[j].type = "Phone Number"

\* ---------------------------------------------------- claims on the calls

C11_ForLanguage(byLanguage, lang) ==
    IF lang \in DOMAIN byLanguage THEN byLanguage[lang] ELSE byLanguage["en"]

\* the category table, in its order, with the patterns for a language
C11_Categories(lang) ==
    <<[type |-> "Name", pattern |-> C11_ForLanguage(Pat_Name, lang)],
      [type |-> "Address", pattern |-> C11_ForLanguage(Pat_Address, lang)],
      [type |-> "Phone Number", pattern |-> Pat_Phone],
      [type |-> "Email Address", pattern |-> Pat_Email],
      [type |-> "Aadhaar Number", pattern |-> Pat_Aadhaar],
      [type |-> "Date of Birth", pattern |-> Pat_DOB],
      [type |-> "Gender", pattern |-> C11_ForLanguage(Pat_Gender, lang)]>>

C11_Category(det, text) ==
    C9_FirstMatch(C11_Categories(DetectLanguage(det, text)), Strip(text))

\* the fields Pass 2 emitted for pair k
C11_FieldsOf(k) ==
    {i \in 1..Len(pii_fields) : emitted_by[i] = [pass |-> 2, item |-> k]}

\* no field of Pass 1, or of Pass 2 for an earlier pair, has the pair's value
C11_Unseen(k) ==
    \A i \in 1..Len(pii_fields) :
        (emitted_by[i].pass = 1 \/ (emitted_by[i].pass = 2 /\ emitted_by[i].item < k))
            => pii_fields[i].value # key_value_pairs[k][2].text

\* C11: when detect_pii has returned, Pass 2 has emitted at most one field for
\* each pair; for a pair whose value was not seen at its turn and is not
\* blacklisted that field has the first category, in the order Name, Address,
\* Phone Number, Email Address, Aadhaar Number, Date of Birth, Gender, whose
\* pattern (the detected language's, or the English one when the language has
\* none) is found in the value, and the pair's value, box and confidence, and
\* there is no field when no pattern is found; every emitted value is in
\* seen_values.
C11_Pass2Order ==
    /\ \A i \in 1..Len(pii_fields) : pii_fields[i].value \in seen_values
    /\ pc = "returned" =>
          \A k \in 1..Len(key_value_pairs) :
              LET value == key_value_pairs[k][2]
                  category == C11_Category(detector, value.text)
              IN  /\ Cardinality(C11_FieldsOf(k)) <= 1
                  /\ (C11_Unseen(k) /\ ~IsNonPii(detector, value.text)) =>
                        IF category = NoType THEN C11_FieldsOf(k) = {}
                        ELSE \E i \in C11_FieldsOf(k) :
                                pii_fields[i] =
                                    [type |-> category, value |-> value.text,
                                     bounding_box |-> value.bounding_box,
                                     confidence |-> value.confidence]

\* C11 witness: a call has returned on a form with the pairs "Ref No" ->
\* "Formulaire national", for which the detector reports a language with no
\* pattern of its own, and "Serial" -> the Hindi word for male; Pass 2 made a
\* Name of each (the English name pattern, the Hindi name pattern).
C11_Witness ==
    /\ pc = "returned"
    /\ DetectLanguage(detector, T_FrenchForm) \notin DOMAIN Pat_Name
    /\ \E i, j \in 1..Len(pii_fields) :
          /\ emitted_by[i].pass = 2 /\ emitted_by[j].pass = 2
          /\ pii_fields[i].value = T_FrenchForm /\ pii_fields[i].type = "Name"
          /\ pii_fields[j].value = T_HindiMale /\ pii_fields[j].type = "Name"

\* ---------------------------------------------- claims on the extractor

C12_ValueBlocksWith(id) ==
    {v \in 1..Len(textract_blocks) :
        IsValueBlock(textract_blocks[v]) /\ textract_blocks[v].Id = id}

\* the links, in emission order, whose id is the Id of a VALUE block
C12_Resolvable ==
    {<<b, r, j>> \in
        {c \in 1..Len(textract_blocks) :
              IsKeyBlock(textract_blocks[c]) /\ Has(textract_blocks[c], "Relationships")}
        \X (1..2) \X (1..(MaxLinks + 1)) :
        /\ r <= Len(textract_blocks[b].Relationships)
        /\ textract_blocks[b].Relationships[r].Type = "VALUE"
        /\ j <= Len(textract_blocks[b].Relationships[r].Ids)
        /\ C12_ValueBlocksWith(textract_blocks[b].Relationships[r].Ids[j]) # {}}

C12_Dangling ==
    \E b \in 1..Len(textract_blocks) :
        /\ IsKeyBlock(textract_blocks[b]) /\ Has(textract_blocks[b], "Relationships")
        /\ \E r \in 1..Len(textract_blocks[b].Relationships) :
              /\ textract_blocks[b].Relationships[r].Type = "VALUE"
              /\ \E j \in 1..Len(textract_blocks[b].Relationships[r].Ids) :
                    C12_ValueBlocksWith(textract_blocks[b].Relationships[r].Ids[j]) = {}

C12_KeyOf(l) == Lower(GetBlockText(textract_blocks[l[1]], textract_blocks))

C12_IdOf(l) == textract_blocks[l[1]].Relationships[l[2]].Ids[l[3]]

C12_Before(l, m) ==
    \/ l[1] < m[1]
    \/ l[1] = m[1] /\ l[2] < m[2]
    \/ l[1] = m[1] /\ l[2] = m[2] /\ l[3] < m[3]

\* the last resolvable link, in emission order, of a key text
C12_LastOf(key) ==
    CHOOSE l \in C12_Resolvable :
        /\ C12_KeyOf(l) = key
        /\ \A m \in C12_Resolvable : C12_KeyOf(m) = key => (m = l \/ C12_Before(m, l))

\* the value record of the VALUE block with an id
C12_RecordOf(id) ==
    LET v == CHOOSE w \in C12_ValueBlocksWith(id) : \A x \in C12_ValueBlocksWith(id) : x <= w
    IN  [text |-> GetBlockText(textract_blocks[v], textract_blocks),
         bounding_box |-> BoxOf(textract_blocks[v], EmptyDict),
         confidence |-> ConfidenceOf(textract_blocks[v], 0)]

\* the extractor has just returned the map
C12_Extracted == pc = "pass1" /\ idx = 1

\* C12: the map the extractor returns holds one entry for each key text that
\* a resolvable VALUE link has, and no other entry; the entry's value is the
\* value record of the last resolvable link of that key text in emission
\* order (block, relationship, id). A link to an id that no VALUE block has
\* adds nothing and changes nothing.
C12_LastWriteWins ==
    C12_Extracted =>
        /\ \A a, b \in 1..Len(key_value_pairs) :
              a # b => key_value_pairs[a][1] # key_value_pairs[b][1]
        /\ {key_value_pairs[a][1] : a \in 1..Len(key_value_pairs)}
              = {C12_KeyOf(l) : l \in C12_Resolvable}
        /\ \A a \in 1..Len(key_value_pairs) :
              key_value_pairs[a][2] = C12_RecordOf(C12_IdOf(C12_LastOf(key_value_pairs[a][1])))

\* C12 witness: the extractor has returned a one-entry map on a form in which
\* two KEY blocks have the key text "ref no", the first linking its VALUE
\* block and an id no block has, the second its own VALUE block: the entry is
\* the second block's record, "9876543210".
C12_Witness ==
    /\ C12_Extracted
    /\ C12_Dangling
    /\ \E l, m \in C12_Resolvable :
          /\ l[1] # m[1] /\ C12_KeyOf(l) = C12_KeyOf(m) /\ C12_IdOf(l) # C12_IdOf(m)
    /\ Len(key_value_pairs) = 1
    /\ key_value_pairs[1][1] = Lower(T_RefNoKey)
    /\ key_value_pairs[1][2].text = T_Phone

\* ---------------------------------------------- claims on the override

\* the secondary lines whose text, stripped, is that of a primary LINE block
C13_ReadByBoth ==
    {l \in 1..Len(tesseract_lines) :
        /\ Has(tesseract_lines[l], "text")
        /\ Strip(tesseract_lines[l].text) # <<>>
        /\ \E b \in 1..Len(textract_blocks) :
              /\ BlockTypeOf(textract_blocks[b]) = "LINE"
              /\ Strip(TextOf(textract_blocks[b])) = Strip(tesseract_lines[l].text)}

\* C13: in every state of a call, no field that Pass 4 emitted comes from a
\* secondary line whose text is the stripped text of a primary LINE block:
\* the override is never taken, and the field carries the geometry and the
\* confidence of its secondary line.
C13_OverrideNeverTaken ==
    \A i \in 1..Len(pii_fields) :
        emitted_by[i].pass = 4 =>
            /\ emitted_by[i].item \notin C13_ReadByBoth
            /\ \A b \in 1..Len(textract_blocks) :
                  BlockTypeOf(textract_blocks[b]) = "LINE"
                      => Strip(TextOf(textract_blocks[b])) # pii_fields[i].value
            /\ pii_fields[i].bounding_box =
                  (IF Has(tesseract_lines[emitted_by[i].item], "bounding_box")
                   THEN tesseract_lines[emitted_by[i].item].bounding_box ELSE EmptyDict)
            /\ pii_fields[i].confidence =
                  (IF Has(tesseract_lines[emitted_by[i].item], "confidence")
                   THEN tesseract_lines[emitted_by[i].item].confidence ELSE 0)

\* C13 witness: a call has returned on the line "123456-789012" read by both
\* engines, which Pass 3 declined and Pass 4 declined too, followed by the
\* secondary line "jane@example.com", the one field, with its own geometry.
C13_Witness ==
    /\ pc = "returned"
    /\ Len(tesseract_lines) = 2
    /\ C13_ReadByBoth = {1}
    /\ tesseract_lines[1].text = T_TwelveDashed
    /\ Len(pii_fields) = 1
    /\ emitted_by[1] = [pass |-> 4, item |-> 2]
    /\ pii_fields[1].value = T_Email
    /\ pii_fields[1].bounding_box = SecBox(2)

====
